---------------------------- MODULE Spec2Model ----------------------------
(***************************************************************************)
(* A model of the real-time speech translation pipeline of                 *)
(* src/speech_translation_pipeline.py: the VAD chunker, the STT, the       *)
(* translation and the TTS stage workers, the TTSManager worker that       *)
(* drives the speaking gate, and the bounded queues between them.          *)
(*                                                                         *)
(* Text is a sequence of one-character strings.  A frame is a record of    *)
(* the timestamp it was read at and two history fields (echo, closed); its *)
(* speech/silence classification is drawn when the frame is classified.    *)
(***************************************************************************)
EXTENDS Integers, Sequences, FiniteSets, TLC

\* ------------------------------------------------------------ configuration
SAMPLE_RATE == 16000
FRAME_MS == 30
CHUNK_MIN_MS == 200
QUEUE_SIZE == 8
\* the literal of "if silence_frames > 14"
SILENCE_THRESHOLD == 14
\* the literal of [-150:]
CONTEXT_CHARS == 150
\* the literal of deque(maxlen=1)
CONTEXT_WINDOW == 1
\* SessionManager's default config: 'archive_threshold_days': 30
archive_threshold_days == 30

\* ------------------------------------------------------------------ bounds
\* capacity of the three inter-stage queues (queue.Queue(maxsize=QUEUE_SIZE));
\* the program runs with 8, the model with a smaller capacity
MaxQueue == 1
\* frames the microphone delivers when its signal is unconstrained
MaxFrames == 16
\* the planned signals: lead silence, one speech run, trailing silence
MaxLead == 1
MaxSpeech == 8
MaxSil == 16
\* requests the TTSManager queue (unbounded in the program) holds in the model
MaxTTS == 1
MaxPending == 9
\* chunks the abstract chunker puts, and the values STTWorker.seq takes
MaxChunks == 3
\* events delivered a second time
MaxDups == 1
\* the SessionManager's clock: ticks per second, the last tick, and the events
\* recorded in one session
ClockRes == 2
MaxNow == 3
MaxEvents == 2
\* sessions started
MaxSessions == 2
\* capacity of the inter-stage queues in the view of the backlog
MaxBacklog == 2

\* ------------------------------------------------------------------ helpers
Range(s) == {s[i] : i \in 1..Len(s)}

NoChunk == [none |-> TRUE]
NoFrame == [none |-> TRUE]
NoEvent == [none |-> TRUE]
NoSession == [none |-> TRUE]
NoDrop == [none |-> TRUE]
\* workers = [vad, stt, mt, tts]
WorkerNames == <<"vad", "stt", "mt", "tts">>
NoFiles == [id \in {} |-> NoSession]

RECURSIVE LStrip(_)
LStrip(t) == IF t # <<>> /\ Head(t) = " " THEN LStrip(Tail(t)) ELSE t

RECURSIVE RStrip(_)
RStrip(t) ==
    IF t # <<>> /\ t[Len(t)] = " " THEN RStrip(SubSeq(t, 1, Len(t) - 1)) ELSE t

\* str.strip()
Strip(t) == RStrip(LStrip(t))

\* " ".join(parts)
RECURSIVE Join(_)
Join(parts) ==
    IF parts = <<>> THEN <<>>
    ELSE IF Len(parts) = 1 THEN parts[1]
    ELSE parts[1] \o <<" ">> \o Join(Tail(parts))

\* text[-n:]
LastChars(t, n) == IF Len(t) <= n THEN t ELSE SubSeq(t, Len(t) - n + 1, Len(t))

\* make_event(...); the language fields are left out
make_event(type, seq, text, ts_start, ts_end) ==
    [type |-> type, seq |-> seq, text |-> text,
     start_ms |-> ts_start, end_ms |-> ts_end]

\* bytes one stream.read returns: frame_bytes // 2 samples of 2 bytes
frame_bytes == ((SAMPLE_RATE * FRAME_MS) \div 1000) * 2

\* len(chunk_buffer): every buffered frame is frame_bytes long
BufLen(buf) == Len(buf) * frame_bytes

\* chunk_len_ms = len(chunk_buffer) // 2 * 1000 // SAMPLE_RATE
ChunkLenMs(buf) == ((BufLen(buf) \div 2) * 1000) \div SAMPLE_RATE

GateMinBytes_samples == (CHUNK_MIN_MS * SAMPLE_RATE) \div 1000

\* the byte threshold of the gate path: CHUNK_MIN_MS * SAMPLE_RATE * 2 // 1000
GateMinBytes == (CHUNK_MIN_MS * SAMPLE_RATE * 2) \div 1000

\* the chunk tuple (chunk_start_ms, end, chunk_buffer, lang_src); the language
\* is fixed for a run and left out; echo is the buffer's history mark
MakeChunk(start, end, buf, e) ==
    [start_ms |-> start, end_ms |-> end, audio |-> buf, echo |-> e]

\* ---------------------------------------------------------------- the state
VARIABLES
    mic,             \* the signal at the microphone: "free" or a planned signal
    stop_event,      \* main's shared cancellation flag
    speaking,        \* TTSManager._speaking
    tts_queue,       \* TTSManager.tts_queue
    tm_engine,       \* TTSManager.engine is not None
    tm_stop,         \* TTSManager.stop_event
    tm_pc,           \* TTSManager._worker's position
    tm_text,         \* the request the worker holds
    vad2stt,         \* the chunker -> transcriber queue
    vad_pc,          \* VADChunker.run's position
    frame,           \* the frame being read or just read
    chunk_buffer,
    chunk_start_ms,
    ts_ms,
    in_speech,
    silence_frames,
    vad_out,         \* the chunk q_out.put is waiting to place
    vad_path,        \* which put that is: "gate" or "silence"
    frame_echo,      \* history: the engine played during the read of frame
    buf_echo,        \* history: chunk_buffer holds such a frame
    gate_flushes,    \* history: flushes since the chunker last found the gate open
    chunks_made,     \* chunks the abstract chunker has put
    stt2mt,          \* the transcriber -> translator queue
    stt_pc,          \* STTWorker.run's position
    stt_item,        \* the chunk it took
    stt_evt,         \* the event q_out.put is waiting to place
    stt_seq,         \* STTWorker.seq
    stt_log,         \* history: the seq values placed on stt2mt, in order
    delivered,       \* history: the events placed on stt2mt
    dups,            \* events delivered a second time
    mt2tts,          \* the translator -> synthesizer queue
    mt_model,        \* TranslationWorker.model is not None
    mt_pc,           \* TranslationWorker.run's position
    mt_evt,          \* the event it took
    mt_out,          \* the event q_out.put is waiting to place
    mt_fallback,     \* history: mt_out carries the fallback text
    last_translated, \* the dedupe cache: seq -> text
    context_window,  \* deque(maxlen=1)
    mt_calls,        \* history: engine calls made
    mt_log,          \* history: the seq values placed on mt2tts, in order
    current_session, \* SessionManager.current_session
    sessions_dir,    \* the files of sessions_dir: session id -> saved dict
    archive_dir,     \* the files of archive_dir: session id -> saved dict
    sm_now,          \* time.time(), in ticks
    sm_id,           \* the session id the last start_session returned
    sm_recorded,     \* history: the events recorded since that start_session,
                     \* kept until the call that follows end_session
    sm_last,         \* history: "end" when the call made last was an
                     \* end_session that ended a session
    sm_starts,       \* sessions started
    stt_model,       \* STTWorker.__init__ loads the Whisper model without error
    main_pc,         \* main's position
    main_i,          \* the index of main's "for w in workers" loops
    workers,         \* main's list of workers
    main_exc,        \* an exception is on its way out of main
    tw_pc,           \* TTSWorker.run's position
    tw_evt,          \* the event it took
    tw_log,          \* history: the seq values of the final_translation events
                     \* it took, in order
    tts_tags,        \* history: for each request of tts_queue, the seq of the
                     \* event it was made for, -1 for a request of another caller
    tm_tag,          \* history: that seq for the request the worker holds
    said_log,        \* history: the seq values of the requests given to
                     \* engine.say for an event, in order
    last_drop,       \* history: the last drop on a full queue, the stage that
                     \* made it and whether it printed a warning
    late_gets,       \* history, kept in the view of the backlog: for each
                     \* stage, the items its get returned while stop_event
                     \* was set
    at_stop          \* history, kept in the same view: the three input queues
                     \* as they were when stop_event was set

vadVars == <<vad_pc, frame, chunk_buffer, chunk_start_ms, ts_ms, in_speech,
             silence_frames, vad_out, vad_path, frame_echo, buf_echo,
             gate_flushes>>
tagVars == <<tts_tags, tm_tag, said_log>>
tmVars == <<speaking, tts_queue, tm_engine, tm_stop, tm_pc, tm_text, tagVars>>
sttVars == <<stt_pc, stt_item, stt_evt, stt_seq, stt_log>>
mtVars == <<mt_model, mt_pc, mt_evt, mt_out, mt_fallback, last_translated,
            context_window, mt_calls, mt_log>>
envVars == <<mic, stop_event, chunks_made, delivered, dups>>
smVars == <<current_session, sessions_dir, archive_dir, sm_now, sm_id,
            sm_recorded, sm_last, sm_starts>>
mainVars == <<stt_model, main_pc, main_i, workers, main_exc>>
twVars == <<tw_pc, tw_evt, tw_log>>
\* what the chunker, the transcriber, the translator and the TTSManager worker
\* never touch
stopVars == <<late_gets, at_stop>>
sideCore == <<smVars, mainVars, twVars>>
sideVars == <<sideCore, last_drop, stopVars>>
\* the same, but for the history of the drops
sideButDrop == <<sideCore, stopVars>>
pipeVars == <<envVars, vad2stt, stt2mt, mt2tts, vadVars, tmVars, sttVars, mtVars>>
vars == <<pipeVars, sideVars>>

\* what a step of each thread leaves alone, its own variables and the queues
\* it touches apart
restVAD == <<envVars, stt2mt, mt2tts, tmVars, sttVars, mtVars, sideVars>>
restTM == <<envVars, vad2stt, stt2mt, mt2tts, vadVars, sttVars, mtVars, sideVars>>
restSTT == <<mic, stop_event, chunks_made, dups, mt2tts, vadVars, tmVars, mtVars,
             sideVars>>
restMT == <<envVars, vad2stt, vadVars, tmVars, sttVars, sideVars>>

\* ------------------------------------------------------------ the microphone
\* a planned signal: lead silence frames, then nsp speech frames, then nsil
\* silence frames, the whole reps times over
Plans == [free : {FALSE}, lead : 0..MaxLead, nsp : 1..MaxSpeech,
          nsil : SILENCE_THRESHOLD..MaxSil, reps : {1}]

FreeMic == [free |-> TRUE, lead |-> 0, nsp |-> 0, nsil |-> 0, reps |-> 0]

PlanLen(p) == p.lead + p.nsp + p.nsil

\* the chunker seen from downstream, as ChunkSource below, the queues roomy
\* enough to hold a backlog
BacklogSource == [free |-> FALSE, lead |-> 0, nsp |-> 0, nsil |-> 0, reps |-> 1]

\* queue.Queue(maxsize=QUEUE_SIZE), at the model's size
Capacity == IF mic = BacklogSource THEN MaxBacklog ELSE MaxQueue

\* frames the microphone still delivers
MicLen == IF mic.free THEN MaxFrames ELSE PlanLen(mic) * mic.reps

\* what vad.is_speech can answer for the frame read at timestamp t
FrameKinds(t) ==
    IF mic.free THEN BOOLEAN
    ELSE LET k == (t \div FRAME_MS) % PlanLen(mic)
         IN  {k >= mic.lead /\ k < mic.lead + mic.nsp}

\* --------------------------------------------------------------- VADChunker
\* p = pyaudio.PyAudio(); stream = p.open(...) returns
VADOpen ==
    /\ vad_pc = "open"
    /\ vad_pc' = "loop"
    /\ UNCHANGED <<frame, chunk_buffer, chunk_start_ms, ts_ms, in_speech,
                   silence_frames, vad_out, vad_path, frame_echo, buf_echo,
                   gate_flushes>>
    /\ UNCHANGED <<vad2stt, restVAD>>

\* p.open(...) raises: the capture device cannot be opened, run ends there
VADOpenFail ==
    /\ vad_pc = "open"
    /\ vad_pc' = "dead"
    /\ UNCHANGED <<frame, chunk_buffer, chunk_start_ms, ts_ms, in_speech,
                   silence_frames, vad_out, vad_path, frame_echo, buf_echo,
                   gate_flushes>>
    /\ UNCHANGED <<vad2stt, restVAD>>

\* stream.read raises: the finally block closes the stream, run ends there
VADReadFail ==
    /\ vad_pc = "read"
    /\ vad_pc' = "dead"
    /\ UNCHANGED <<frame, chunk_buffer, chunk_start_ms, ts_ms, in_speech,
                   silence_frames, vad_out, vad_path, frame_echo, buf_echo,
                   gate_flushes>>
    /\ UNCHANGED <<vad2stt, restVAD>>

\* while not self.stop_event.is_set(): ... stream.read begins
VADLoop ==
    /\ vad_pc = "loop"
    /\ IF stop_event
       THEN /\ vad_pc' = "done"
            /\ UNCHANGED <<frame, frame_echo>>
       ELSE /\ ts_ms \div FRAME_MS < MicLen
            /\ vad_pc' = "read"
            /\ frame' = [ts |-> ts_ms, closed |-> FALSE]
            /\ frame_echo' = (tm_pc = "playing")
    /\ UNCHANGED <<chunk_buffer, chunk_start_ms, ts_ms, in_speech, silence_frames,
                   vad_out, vad_path, buf_echo, gate_flushes>>
    /\ UNCHANGED <<vad2stt, restVAD>>

\* stream.read returns the frame
VADRead ==
    /\ vad_pc = "read"
    /\ vad_pc' = "frame"
    /\ UNCHANGED <<frame, chunk_buffer, chunk_start_ms, ts_ms, in_speech,
                   silence_frames, vad_out, vad_path, frame_echo, buf_echo,
                   gate_flushes>>
    /\ UNCHANGED <<vad2stt, restVAD>>

VADGateClosed_noreset ==
    /\ ts_ms' = ts_ms + FRAME_MS
    /\ IF in_speech /\ BufLen(chunk_buffer) >= GateMinBytes
       THEN /\ vad_out' = MakeChunk(chunk_start_ms, ts_ms', chunk_buffer, buf_echo)
            /\ vad_path' = "gate"
            /\ vad_pc' = "put"
            /\ gate_flushes' = gate_flushes + 1
       ELSE /\ vad_pc' = "loop"
            /\ UNCHANGED <<vad_out, vad_path, gate_flushes>>
    /\ UNCHANGED <<in_speech, chunk_buffer, buf_echo, silence_frames>>
    /\ UNCHANGED chunk_start_ms

\* the gate branch: tts_manager.is_speaking() answered True
VADGateClosed ==
    /\ ts_ms' = ts_ms + FRAME_MS
    /\ IF in_speech /\ BufLen(chunk_buffer) >= GateMinBytes
       THEN /\ vad_out' = MakeChunk(chunk_start_ms, ts_ms', chunk_buffer, buf_echo)
            /\ vad_path' = "gate"
            /\ vad_pc' = "put"
            /\ gate_flushes' = gate_flushes + 1
       ELSE /\ vad_pc' = "loop"
            /\ UNCHANGED <<vad_out, vad_path, gate_flushes>>
    /\ in_speech' = FALSE
    /\ chunk_buffer' = <<>>
    /\ buf_echo' = FALSE
    /\ silence_frames' = 0
    /\ UNCHANGED chunk_start_ms

\* the frame in hand, marked with what the gate check answered for it
Seen == [frame EXCEPT !.closed = speaking]

\* the classification branch for a frame vad.is_speech calls speech
VADSpeech ==
    /\ IF ~in_speech
       THEN /\ chunk_start_ms' = ts_ms
            /\ chunk_buffer' = <<Seen>>
            /\ buf_echo' = frame_echo
            /\ in_speech' = TRUE
            /\ silence_frames' = 0
       ELSE /\ chunk_buffer' = Append(chunk_buffer, Seen)
            /\ buf_echo' = (buf_echo \/ frame_echo)
            /\ UNCHANGED <<chunk_start_ms, in_speech, silence_frames>>
    /\ ts_ms' = ts_ms + FRAME_MS
    /\ vad_pc' = "loop"
    /\ UNCHANGED <<vad_out, vad_path>>

SilenceExceeded_atleast(n) == n >= SILENCE_THRESHOLD

\* if silence_frames > 14
SilenceExceeded(n) == n > SILENCE_THRESHOLD

SilenceEndMs_late == ts_ms + FRAME_MS

\* the end timestamp the trailing-silence put passes: ts_ms, not yet advanced
SilenceEndMs == ts_ms

VADSilence_eager ==
    /\ silence_frames' = IF in_speech THEN 0 ELSE silence_frames + 1
    /\ IF in_speech
       THEN /\ vad_out' = MakeChunk(chunk_start_ms, SilenceEndMs,
                                   Append(chunk_buffer, Seen), buf_echo \/ frame_echo)
            /\ vad_path' = "silence"
            /\ vad_pc' = "put"
            /\ in_speech' = FALSE
            /\ chunk_buffer' = <<>>
            /\ buf_echo' = FALSE
       ELSE /\ vad_pc' = "loop"
            /\ UNCHANGED <<chunk_buffer, buf_echo, in_speech, vad_out, vad_path>>
    /\ ts_ms' = ts_ms + FRAME_MS
    /\ UNCHANGED chunk_start_ms

\* the classification branch for a frame vad.is_speech calls silence
VADSilence ==
    /\ silence_frames' =
          IF in_speech /\ SilenceExceeded(silence_frames + 1)
          THEN 0 ELSE silence_frames + 1
    /\ IF in_speech
       THEN LET buf == Append(chunk_buffer, Seen)
            IN  IF SilenceExceeded(silence_frames + 1)
                THEN /\ IF ChunkLenMs(buf) >= CHUNK_MIN_MS
                        THEN /\ vad_out' = MakeChunk(chunk_start_ms, SilenceEndMs, buf,
                                                    buf_echo \/ frame_echo)
                             /\ vad_path' = "silence"
                             /\ vad_pc' = "put"
                        ELSE /\ vad_pc' = "loop"
                             /\ UNCHANGED <<vad_out, vad_path>>
                     /\ in_speech' = FALSE
                     /\ chunk_buffer' = <<>>
                     /\ buf_echo' = FALSE
                ELSE /\ chunk_buffer' = buf
                     /\ buf_echo' = (buf_echo \/ frame_echo)
                     /\ vad_pc' = "loop"
                     /\ UNCHANGED <<in_speech, vad_out, vad_path>>
       ELSE /\ vad_pc' = "loop"
            /\ UNCHANGED <<chunk_buffer, buf_echo, in_speech, vad_out, vad_path>>
    /\ ts_ms' = ts_ms + FRAME_MS
    /\ UNCHANGED chunk_start_ms

\* one frame through the loop body, up to the put it may end in.  The locals
\* the code resets after the put are the chunker's own, so resetting them here
\* is invisible to every other thread.
VADProcess ==
    /\ vad_pc = "frame"
    /\ IF speaking
       THEN VADGateClosed
       ELSE /\ \E is_speech \in FrameKinds(ts_ms) :
                  IF is_speech THEN VADSpeech ELSE VADSilence
            /\ gate_flushes' = 0
    /\ frame' = Seen
    /\ UNCHANGED frame_echo
    /\ UNCHANGED <<vad2stt, restVAD>>

\* q_out.put(..., timeout=TIMEOUT) finds room
VADPut ==
    /\ vad_pc = "put"
    /\ Len(vad2stt) < MaxQueue
    /\ vad2stt' = Append(vad2stt, vad_out)
    /\ vad_pc' = "loop"
    /\ vad_out' = NoChunk
    /\ UNCHANGED <<frame, chunk_buffer, chunk_start_ms, ts_ms, in_speech,
                   silence_frames, vad_path, frame_echo, buf_echo, gate_flushes>>
    /\ UNCHANGED restVAD

\* what the except queue.Full of the put does, by the path the chunk came:
\* print("[VAD] Queue full, dropping chunk") after a close by silence, pass
\* after a gate flush
VADWarns(path) == path = "silence"

\* q_out.put(..., timeout=TIMEOUT) raises queue.Full: the chunk is dropped
VADPutTimeout ==
    /\ vad_pc = "put"
    /\ Len(vad2stt) >= MaxQueue
    /\ vad_pc' = "loop"
    /\ vad_out' = NoChunk
    /\ last_drop' = [stage |-> "VAD", warning |-> VADWarns(vad_path)]
    /\ UNCHANGED <<frame, chunk_buffer, chunk_start_ms, ts_ms, in_speech,
                   silence_frames, vad_path, frame_echo, buf_echo, gate_flushes>>
    /\ UNCHANGED <<vad2stt, envVars, stt2mt, mt2tts, tmVars, sttVars, mtVars,
                   sideButDrop>>

\* --------------------------------------------------------------- TTSManager
\* speak(text): tts_queue.put(text, block=False) when there is an engine.
\* The queue is queue.Queue(): it has no capacity, the put never raises Full.
speak(text) ==
    tts_queue' = IF tm_engine THEN Append(tts_queue, text) ELSE tts_queue

\* history: the request speak queues is made for the event of that seq
tagged(seq) ==
    tts_tags' = IF tm_engine THEN Append(tts_tags, seq) ELSE tts_tags

\* the history of the shutdown is kept in the view of the backlog, where the
\* queues can hold more than one item
Recorded == mic = BacklogSource

\* history: a get that returns an item while the flag is set is counted
LateGet(stage) ==
    late_gets' = IF stop_event /\ Recorded
                 THEN [late_gets EXCEPT ![stage] = @ + 1]
                 ELSE late_gets

\* while not self.stop_event.is_set()
TMLoop ==
    /\ tm_pc = "loop"
    /\ tm_pc' = IF tm_stop THEN "done" ELSE "get"
    /\ UNCHANGED <<speaking, tts_queue, tm_engine, tm_stop, tm_text>>
    /\ UNCHANGED tagVars
    /\ UNCHANGED restTM

TMGet_lifo ==
    /\ tm_pc = "get"
    /\ tts_queue # <<>>
    /\ tts_queue' = SubSeq(tts_queue, 1, Len(tts_queue) - 1)
    /\ IF tts_queue[Len(tts_queue)] # <<>> /\ tm_engine
       THEN tm_pc' = "engage" /\ tm_text' = tts_queue[Len(tts_queue)]
       ELSE tm_pc' = "loop" /\ tm_text' = tm_text
    /\ UNCHANGED <<speaking, tm_engine, tm_stop>>
    /\ tts_tags' = SubSeq(tts_tags, 1, Len(tts_tags) - 1)
    /\ tm_tag' = tts_tags[Len(tts_tags)]
    /\ UNCHANGED said_log
    /\ UNCHANGED restTM

\* text = self.tts_queue.get(timeout=0.1); if text and self.engine
TMGet ==
    /\ tm_pc = "get"
    /\ tts_queue # <<>>
    /\ tts_queue' = Tail(tts_queue)
    /\ IF Head(tts_queue) # <<>> /\ tm_engine
       THEN tm_pc' = "engage" /\ tm_text' = Head(tts_queue)
       ELSE tm_pc' = "loop" /\ tm_text' = tm_text
    /\ UNCHANGED <<speaking, tm_engine, tm_stop>>
    /\ tts_tags' = Tail(tts_tags)
    /\ tm_tag' = Head(tts_tags)
    /\ UNCHANGED said_log
    /\ UNCHANGED restTM

\* except queue.Empty: continue
TMEmpty ==
    /\ tm_pc = "get"
    /\ tts_queue = <<>>
    /\ tm_pc' = "loop"
    /\ UNCHANGED <<speaking, tts_queue, tm_engine, tm_stop, tm_text>>
    /\ UNCHANGED tagVars
    /\ UNCHANGED restTM

\* self._speaking.set()
TMEngage ==
    /\ tm_pc = "engage"
    /\ speaking' = TRUE
    /\ tm_pc' = "say"
    /\ UNCHANGED <<tts_queue, tm_engine, tm_stop, tm_text>>
    /\ UNCHANGED tagVars
    /\ UNCHANGED restTM

\* engine.say(text); engine.runAndWait(): playback becomes audible.  A frame
\* whose read is under way now overlaps the playback.
TMSayStart ==
    /\ tm_pc = "say"
    /\ tm_pc' = "playing"
    /\ frame_echo' = (frame_echo \/ vad_pc = "read")
    /\ said_log' = IF tm_tag >= 0 THEN Append(said_log, tm_tag) ELSE said_log
    /\ UNCHANGED <<tts_tags, tm_tag>>
    /\ UNCHANGED <<speaking, tts_queue, tm_engine, tm_stop, tm_text>>
    /\ UNCHANGED <<vad_pc, frame, chunk_buffer, chunk_start_ms, ts_ms, in_speech,
                   silence_frames, vad_out, vad_path, buf_echo, gate_flushes>>
    /\ UNCHANGED <<envVars, vad2stt, stt2mt, mt2tts, sttVars, mtVars, sideVars>>

TMSayRaise_fatal ==
    /\ tm_pc \in {"say", "playing"}
    /\ tm_pc' = "done"
    /\ UNCHANGED <<speaking, tts_queue, tm_engine, tm_stop, tm_text>>
    /\ UNCHANGED tagVars
    /\ UNCHANGED restTM

\* engine.say or engine.runAndWait raises, before or during the playback:
\* except Exception as e
TMSayRaise ==
    /\ tm_pc \in {"say", "playing"}
    /\ tm_pc' = "except"
    /\ UNCHANGED <<speaking, tts_queue, tm_engine, tm_stop, tm_text>>
    /\ UNCHANGED tagVars
    /\ UNCHANGED restTM

TMExcept_skip ==
    /\ tm_pc = "except"
    /\ tm_pc' = "loop"
    /\ UNCHANGED <<speaking, tts_queue, tm_engine, tm_stop, tm_text>>
    /\ UNCHANGED tagVars
    /\ UNCHANGED restTM

\* print(f"[TTS Manager] Speak error: {e}"): the finally block is entered
TMExcept ==
    /\ tm_pc = "except"
    /\ tm_pc' = "cool"
    /\ UNCHANGED <<speaking, tts_queue, tm_engine, tm_stop, tm_text>>
    /\ UNCHANGED tagVars
    /\ UNCHANGED restTM

\* runAndWait returns: the finally block is entered
TMSayEnd ==
    /\ tm_pc = "playing"
    /\ tm_pc' = "cool"
    /\ UNCHANGED <<speaking, tts_queue, tm_engine, tm_stop, tm_text>>
    /\ UNCHANGED tagVars
    /\ UNCHANGED restTM

TMCool_early ==
    /\ tm_pc = "cool"
    /\ tm_pc' = "release"
    /\ speaking' = FALSE
    /\ UNCHANGED <<tts_queue, tm_engine, tm_stop, tm_text>>
    /\ UNCHANGED tagVars
    /\ UNCHANGED restTM

\* finally: time.sleep(0.3) has elapsed
TMCool ==
    /\ tm_pc = "cool"
    /\ tm_pc' = "release"
    /\ UNCHANGED <<speaking, tts_queue, tm_engine, tm_stop, tm_text>>
    /\ UNCHANGED tagVars
    /\ UNCHANGED restTM

\* finally: self._speaking.clear()
TMRelease ==
    /\ tm_pc = "release"
    /\ speaking' = FALSE
    /\ tm_pc' = "loop"
    /\ UNCHANGED <<tts_queue, tm_engine, tm_stop, tm_text>>
    /\ UNCHANGED tagVars
    /\ UNCHANGED restTM

\* TTSManager.stop(): self.stop_event.set(); the join is bounded
ManagerStop ==
    /\ ~tm_stop
    /\ tm_stop' = TRUE
    /\ UNCHANGED <<speaking, tts_queue, tm_engine, tm_pc, tm_text>>
    /\ UNCHANGED tagVars
    /\ UNCHANGED restTM

\* a caller asks for one fixed text to be spoken
Speak ==
    /\ Len(tts_queue) < MaxTTS
    /\ speak(<<"o", "k">>)
    /\ tm_engine
    /\ UNCHANGED <<speaking, tm_engine, tm_stop, tm_pc, tm_text>>
    /\ tagged(-1)
    /\ UNCHANGED <<tm_tag, said_log>>
    /\ UNCHANGED restTM

\* a caller asks for any text, the empty one included, to be spoken
SpeakTexts == {<<>>, <<"o", "k">>, <<"j", "a">>}

SpeakAny ==
    /\ Len(tts_queue) < MaxTTS
    /\ \E text \in SpeakTexts : speak(text)
    /\ tm_engine
    /\ UNCHANGED <<speaking, tm_engine, tm_stop, tm_pc, tm_text>>
    /\ tagged(-1)
    /\ UNCHANGED <<tm_tag, said_log>>
    /\ UNCHANGED restTM

\* callers ask for the fixed text faster than the worker speaks; the model
\* stops asking at MaxPending
SpeakBurst ==
    /\ Len(tts_queue) < MaxPending
    /\ speak(<<"o", "k">>)
    /\ tm_engine
    /\ UNCHANGED <<speaking, tm_engine, tm_stop, tm_pc, tm_text>>
    /\ tagged(-1)
    /\ UNCHANGED <<tm_tag, said_log>>
    /\ UNCHANGED restTM

\* the transcriber takes a chunk: self.q_in.get(timeout=TIMEOUT)
TakeChunk ==
    /\ vad2stt # <<>>
    /\ vad2stt' = Tail(vad2stt)
    /\ UNCHANGED <<vadVars, restVAD>>

\* ---------------------------------------------------------------- STTWorker
\* the chunker seen from downstream: a gate-flushed chunk of seven frames is
\* put on vad2stt
SourceChunk(k) ==
    MakeChunk(8 * k * FRAME_MS, (8 * k + 8) * FRAME_MS,
              [i \in 1..7 |-> [ts |-> (8 * k + i - 1) * FRAME_MS, closed |-> FALSE]],
              FALSE)

ChunkArrive ==
    /\ chunks_made < MaxChunks
    /\ Len(vad2stt) < Capacity
    /\ vad2stt' = Append(vad2stt, SourceChunk(chunks_made))
    /\ chunks_made' = chunks_made + 1
    /\ UNCHANGED <<mic, stop_event, delivered, dups, stt2mt, mt2tts>>
    /\ UNCHANGED <<vadVars, tmVars, sttVars, mtVars, sideVars>>

\* what the transcription engine can return: the texts of its segments
EngineOut ==
    { <<>>,
      << <<" ">> >>,
      << <<" ", "a">> >>,
      << <<"b", "?">>, <<" ">> >> }

\* text_parts.append(segment.text.strip()); " ".join(text_parts).strip()
FinalText(segs) == Strip(Join([i \in 1..Len(segs) |-> Strip(segs[i])]))

Punctuate_raw(t) == t

\* if final_text[-1] not in ".!?": final_text += "."
Punctuate(t) == IF t[Len(t)] \in {".", "!", "?"} THEN t ELSE Append(t, ".")

\* while not self.stop_event.is_set()
STTLoop ==
    /\ stt_pc = "loop"
    /\ stt_pc' = IF stop_event THEN "done" ELSE "get"
    /\ UNCHANGED <<stt_item, stt_evt, stt_seq, stt_log>>
    /\ UNCHANGED <<vad2stt, stt2mt, delivered, restSTT>>

\* self.q_in.get(timeout=TIMEOUT) returns a chunk
STTGet ==
    /\ stt_pc = "get"
    /\ vad2stt # <<>>
    /\ stt_item' = Head(vad2stt)
    /\ vad2stt' = Tail(vad2stt)
    /\ stt_pc' = "work"
    /\ LateGet("stt")
    /\ UNCHANGED <<stt_evt, stt_seq, stt_log>>
    /\ UNCHANGED <<stt2mt, delivered, mic, stop_event, chunks_made, dups, mt2tts,
                   vadVars, tmVars, mtVars, sideCore, last_drop, at_stop>>

\* except queue.Empty: continue
STTEmpty ==
    /\ stt_pc = "get"
    /\ vad2stt = <<>>
    /\ stt_pc' = "loop"
    /\ UNCHANGED <<stt_item, stt_evt, stt_seq, stt_log>>
    /\ UNCHANGED <<vad2stt, stt2mt, delivered, restSTT>>

\* self.model.transcribe(...) returns; the text is trimmed, skipped when empty,
\* punctuated, and made the event to put
STTTranscribe ==
    /\ stt_pc = "work"
    /\ \E segs \in EngineOut :
          LET final_text == FinalText(segs)
          IN  IF final_text = <<>>
              THEN /\ stt_pc' = "loop"
                   /\ stt_evt' = NoEvent
              ELSE /\ stt_pc' = "put"
                   /\ stt_evt' = make_event("final_transcript", stt_seq,
                                            Punctuate(final_text),
                                            stt_item.start_ms, stt_item.end_ms)
    /\ stt_item' = NoChunk
    /\ UNCHANGED <<stt_seq, stt_log>>
    /\ UNCHANGED <<vad2stt, stt2mt, delivered, restSTT>>

\* self.model.transcribe(...) raises: nothing in run catches it, the thread ends
STTRaise ==
    /\ stt_pc = "work"
    /\ stt_pc' = "dead"
    /\ stt_item' = NoChunk
    /\ UNCHANGED <<stt_evt, stt_seq, stt_log>>
    /\ UNCHANGED <<vad2stt, stt2mt, delivered, restSTT>>

STTSeqAfterPut_stuck == stt_seq

\* self.seq += 1, after the put whether it placed the event or not
STTSeqAfterPut == stt_seq + 1

\* self.q_out.put(evt, timeout=TIMEOUT) finds room; self.seq += 1
STTPut ==
    /\ stt_pc = "put"
    /\ Len(stt2mt) < Capacity
    /\ stt2mt' = Append(stt2mt, stt_evt)
    /\ stt_log' = Append(stt_log, stt_evt.seq)
    /\ delivered' = delivered \cup {stt_evt}
    /\ stt_seq' = STTSeqAfterPut
    /\ stt_evt' = NoEvent
    /\ stt_pc' = "loop"
    /\ UNCHANGED <<stt_item, vad2stt, restSTT>>

STTPutTimeout_blocking == FALSE /\ UNCHANGED vars

\* self.q_out.put(evt, timeout=TIMEOUT) raises queue.Full; self.seq += 1
STTPutTimeout ==
    /\ stt_pc = "put"
    /\ Len(stt2mt) >= Capacity
    /\ stt_seq' = STTSeqAfterPut
    /\ stt_evt' = NoEvent
    /\ stt_pc' = "loop"
    /\ last_drop' = [stage |-> "STT", warning |-> TRUE]
    /\ UNCHANGED <<stt_item, stt_log>>
    /\ UNCHANGED <<vad2stt, stt2mt, delivered, mic, stop_event, chunks_made, dups,
                   mt2tts, vadVars, tmVars, mtVars, sideButDrop>>

\* an event that was placed on stt2mt is delivered a second time
Redeliver ==
    /\ dups < MaxDups
    /\ Len(stt2mt) < MaxQueue
    /\ \E e \in delivered : stt2mt' = Append(stt2mt, e)
    /\ dups' = dups + 1
    /\ UNCHANGED <<mic, stop_event, chunks_made, delivered, vad2stt, mt2tts>>
    /\ UNCHANGED <<vadVars, tmVars, sttVars, mtVars, sideVars>>

\* -------------------------------------------------------- TranslationWorker
\* the translation engine: what it returns shows the text it was given
Translate(input_text) == <<"#">> \o input_text

\* context = " ".join(self.context_window)[-150:]
Context == LastChars(Join(context_window), CONTEXT_CHARS)

\* input_text = f"{context} {src_text}".strip() if context else src_text
InputText(src_text) ==
    IF Context # <<>> THEN Strip(Context \o <<" ">> \o src_text) ELSE src_text

Cached_never(seq, src_text) == FALSE

\* self.last_translated.get(seq) == src_text
Cached(seq, src_text) ==
    seq \in DOMAIN last_translated /\ last_translated[seq] = src_text

WindowAppend_all(w, t) == Append(w, t)

\* deque(maxlen=1).append(src_text)
WindowAppend(w, t) ==
    LET a == Append(w, t)
    IN  IF Len(a) > CONTEXT_WINDOW THEN Tail(a) ELSE a

FallbackText_input(src_text, input_text) == input_text

\* translated = src_text, on a missing model and on an engine error
FallbackText(src_text, input_text) == src_text

MTLoop_drain ==
    /\ mt_pc = "loop"
    /\ mt_pc' = IF stop_event /\ stt2mt = <<>> THEN "done" ELSE "get"
    /\ UNCHANGED <<mt_model, mt_evt, mt_out, mt_fallback, last_translated,
                   context_window, mt_calls, mt_log>>
    /\ UNCHANGED <<stt2mt, mt2tts, restMT>>

\* while not self.stop_event.is_set()
MTLoop ==
    /\ mt_pc = "loop"
    /\ mt_pc' = IF stop_event THEN "done" ELSE "get"
    /\ UNCHANGED <<mt_model, mt_evt, mt_out, mt_fallback, last_translated,
                   context_window, mt_calls, mt_log>>
    /\ UNCHANGED <<stt2mt, mt2tts, restMT>>

\* self.q_in.get(timeout=TIMEOUT) returns an event
MTGet ==
    /\ mt_pc = "get"
    /\ stt2mt # <<>>
    /\ mt_evt' = Head(stt2mt)
    /\ stt2mt' = Tail(stt2mt)
    /\ mt_pc' = "work"
    /\ LateGet("mt")
    /\ UNCHANGED <<mt_model, mt_out, mt_fallback, last_translated,
                   context_window, mt_calls, mt_log>>
    /\ UNCHANGED <<mt2tts, envVars, vad2stt, vadVars, tmVars, sttVars, sideCore,
                   last_drop, at_stop>>

\* except queue.Empty: continue
MTEmpty ==
    /\ mt_pc = "get"
    /\ stt2mt = <<>>
    /\ mt_pc' = "loop"
    /\ UNCHANGED <<mt_model, mt_evt, mt_out, mt_fallback, last_translated,
                   context_window, mt_calls, mt_log>>
    /\ UNCHANGED <<stt2mt, mt2tts, restMT>>

\* the event is of another type, has no text, or is in the dedupe cache
MTSkips(evt) ==
    \/ evt.type # "final_transcript"
    \/ evt.text = <<>>
    \/ Cached(evt.seq, evt.text)

\* the rest of the loop body up to the put, for an event that is not skipped:
\* cache, context, the engine call that returns (failed = FALSE) or raises
MTTranslate(failed) ==
    LET src_text == mt_evt.text
        input_text == InputText(src_text)
        fell == ~mt_model \/ failed
        translated == IF fell THEN FallbackText(src_text, input_text)
                      ELSE Translate(input_text)
    IN  /\ last_translated' =
              [q \in DOMAIN last_translated \cup {mt_evt.seq} |->
                  IF q = mt_evt.seq THEN src_text ELSE last_translated[q]]
        /\ context_window' = WindowAppend(context_window, src_text)
        /\ mt_calls' = IF mt_model THEN mt_calls + 1 ELSE mt_calls
        /\ mt_fallback' = fell
        /\ mt_out' = make_event("final_translation", mt_evt.seq, translated,
                                mt_evt.start_ms, mt_evt.end_ms)
        /\ mt_pc' = "put"
        /\ UNCHANGED mt_evt

MTWork ==
    /\ mt_pc = "work"
    /\ IF MTSkips(mt_evt)
       THEN /\ mt_pc' = "loop"
            /\ mt_evt' = NoEvent
            /\ UNCHANGED <<mt_out, mt_fallback, last_translated, context_window,
                           mt_calls>>
       ELSE \E failed \in (IF mt_model THEN BOOLEAN ELSE {FALSE}) :
                MTTranslate(failed)
    /\ UNCHANGED <<mt_model, mt_log>>
    /\ UNCHANGED <<stt2mt, mt2tts, restMT>>

\* self.q_out.put(trans_evt, timeout=TIMEOUT) finds room
MTPut ==
    /\ mt_pc = "put"
    /\ Len(mt2tts) < Capacity
    /\ mt2tts' = Append(mt2tts, mt_out)
    /\ mt_log' = Append(mt_log, mt_out.seq)
    /\ mt_pc' = "loop"
    /\ mt_evt' = NoEvent
    /\ mt_out' = NoEvent
    /\ mt_fallback' = FALSE
    /\ UNCHANGED <<mt_model, last_translated, context_window, mt_calls>>
    /\ UNCHANGED <<stt2mt, restMT>>

\* self.q_out.put(trans_evt, timeout=TIMEOUT) raises queue.Full
MTPutTimeout ==
    /\ mt_pc = "put"
    /\ Len(mt2tts) >= Capacity
    /\ mt_pc' = "loop"
    /\ last_drop' = [stage |-> "MT", warning |-> TRUE]
    /\ mt_evt' = NoEvent
    /\ mt_out' = NoEvent
    /\ mt_fallback' = FALSE
    /\ UNCHANGED <<mt_model, last_translated, context_window, mt_calls, mt_log>>
    /\ UNCHANGED <<stt2mt, mt2tts, envVars, vad2stt, vadVars, tmVars, sttVars,
                   sideButDrop>>

\* the TTS stage takes an event: self.q_in.get(timeout=TIMEOUT)
TakeTranslation ==
    /\ mt2tts # <<>>
    /\ mt2tts' = Tail(mt2tts)
    /\ UNCHANGED <<envVars, vad2stt, stt2mt, vadVars, tmVars, sttVars, mtVars,
                   sideVars>>

\* ---------------------------------------------------------------- TTSWorker
\* what a step of TTSWorker leaves alone
restTWGet == <<envVars, vad2stt, stt2mt, vadVars, sttVars, mtVars, smVars, mainVars,
               last_drop, at_stop>>
restTW == <<restTWGet, late_gets>>

\* while not self.stop_event.is_set()
TWLoop ==
    /\ tw_pc = "loop"
    /\ tw_pc' = IF stop_event THEN "done" ELSE "get"
    /\ UNCHANGED <<tw_evt, tw_log, mt2tts, tmVars, restTW>>

\* evt = self.q_in.get(timeout=TIMEOUT) returns an event
TWGet ==
    /\ tw_pc = "get"
    /\ mt2tts # <<>>
    /\ tw_evt' = Head(mt2tts)
    /\ mt2tts' = Tail(mt2tts)
    /\ tw_log' = IF Head(mt2tts).type = "final_translation"
                 THEN Append(tw_log, Head(mt2tts).seq) ELSE tw_log
    /\ tw_pc' = "work"
    /\ LateGet("tts")
    /\ UNCHANGED <<tmVars, restTWGet>>

TWEmpty_block ==
    /\ tw_pc = "get"
    /\ mt2tts = <<>>
    /\ UNCHANGED <<tw_pc, tw_evt, tw_log, mt2tts, tmVars, restTW>>

\* except queue.Empty: continue
TWEmpty ==
    /\ tw_pc = "get"
    /\ mt2tts = <<>>
    /\ tw_pc' = "loop"
    /\ UNCHANGED <<tw_evt, tw_log, mt2tts, tmVars, restTW>>

TWWork_engages ==
    /\ tw_pc = "work"
    /\ IF tw_evt.type # "final_translation" \/ tw_evt.text = <<>>
       THEN UNCHANGED <<tts_queue, tts_tags, speaking>>
       ELSE speak(tw_evt.text) /\ tagged(tw_evt.seq) /\ speaking' = TRUE
    /\ tw_pc' = "loop"
    /\ tw_evt' = NoEvent
    /\ UNCHANGED <<tm_engine, tm_stop, tm_pc, tm_text, tm_tag, said_log>>
    /\ UNCHANGED <<tw_log, mt2tts, restTW>>

\* the type and text tests; tts_manager.speak(text).  main has made the
\* manager before it starts the worker: "not tts_manager" is false.
TWWork ==
    /\ tw_pc = "work"
    /\ IF tw_evt.type # "final_translation" \/ tw_evt.text = <<>>
       THEN UNCHANGED <<tts_queue, tts_tags>>
       ELSE speak(tw_evt.text) /\ tagged(tw_evt.seq)
    /\ tw_pc' = "loop"
    /\ tw_evt' = NoEvent
    /\ UNCHANGED <<speaking, tm_engine, tm_stop, tm_pc, tm_text, tm_tag, said_log>>
    /\ UNCHANGED <<tw_log, mt2tts, restTW>>

TWStep == TWLoop \/ TWGet \/ TWEmpty \/ TWWork

\* --------------------------------------------------------------------- main
\* what main never touches
offMain == <<mic, chunks_made, delivered, dups, vad2stt, stt2mt, mt2tts,
             frame, chunk_buffer, chunk_start_ms, ts_ms, in_speech, silence_frames,
             vad_out, vad_path, frame_echo, buf_echo, gate_flushes,
             speaking, tts_queue, tm_engine, tm_pc, tm_text,
             stt_item, stt_evt, stt_seq, stt_log,
             mt_model, mt_evt, mt_out, mt_fallback, last_translated,
             context_window, mt_calls, mt_log, smVars, stt_model,
             tw_evt, tw_log, tagVars, last_drop, late_gets>>
workerPcs == <<vad_pc, stt_pc, mt_pc, tw_pc>>

\* the position of the worker named w
PcOf(w) ==
    CASE w = "vad" -> vad_pc
      [] w = "stt" -> stt_pc
      [] w = "mt" -> mt_pc
      [] w = "tts" -> tw_pc

\* try: the four constructors and workers = [vad, stt, mt, tts].  STTWorker's
\* constructor raises when the Whisper model does not load; TranslationWorker's
\* catches its load error and leaves self.model = None.
MainConstruct ==
    /\ main_pc = "construct"
    /\ IF stt_model
       THEN /\ workers' = WorkerNames
            /\ main_pc' = "start"
            /\ main_i' = 1
            /\ UNCHANGED main_exc
       ELSE /\ main_exc' = TRUE
            /\ main_pc' = "finally"
            /\ UNCHANGED <<workers, main_i>>
    /\ UNCHANGED <<stop_event, tm_stop, workerPcs, offMain, at_stop>>

\* for w in workers: w.start()
MainStart ==
    /\ main_pc = "start"
    /\ LET w == workers[main_i]
       IN  /\ vad_pc' = IF w = "vad" THEN "open" ELSE vad_pc
           /\ stt_pc' = IF w = "stt" THEN "loop" ELSE stt_pc
           /\ mt_pc' = IF w = "mt" THEN "loop" ELSE mt_pc
           /\ tw_pc' = IF w = "tts" THEN "loop" ELSE tw_pc
    /\ IF main_i < Len(workers)
       THEN main_i' = main_i + 1 /\ UNCHANGED main_pc
       ELSE main_i' = 0 /\ main_pc' = "sleep"
    /\ UNCHANGED <<stop_event, tm_stop, workers, main_exc, offMain, at_stop>>

\* time.sleep(args.duration) returns (never, with --duration 0)
MainElapsed ==
    /\ main_pc = "sleep"
    /\ main_pc' = "finally"
    /\ UNCHANGED <<stop_event, tm_stop, workerPcs, main_i, workers, main_exc, offMain, at_stop>>

\* KeyboardInterrupt anywhere in the try block: except KeyboardInterrupt
MainInterrupt ==
    /\ main_pc \in {"construct", "start", "sleep"}
    /\ main_pc' = "finally"
    /\ UNCHANGED <<stop_event, tm_stop, workerPcs, main_i, workers, main_exc, offMain, at_stop>>

\* finally: stop_event.set()
MainSet ==
    /\ main_pc = "finally"
    /\ stop_event' = TRUE
    /\ IF workers = <<>>
       THEN main_pc' = "tts_stop" /\ main_i' = 0
       ELSE main_pc' = "join" /\ main_i' = 1
    /\ UNCHANGED <<tm_stop, workerPcs, workers, main_exc, offMain>>
    /\ at_stop' = IF Recorded
                  THEN [stt |-> vad2stt, mt |-> stt2mt, tts |-> mt2tts]
                  ELSE at_stop

\* for w in workers: w.join(timeout=2).  The join returns when the thread has
\* ended or the two seconds are over; on a thread that was never started it
\* raises RuntimeError, which leaves the finally block.
MainJoin ==
    /\ main_pc = "join"
    /\ IF PcOf(workers[main_i]) = "new"
       THEN /\ main_pc' = "raised"
            /\ main_exc' = TRUE
            /\ UNCHANGED main_i
       ELSE /\ IF main_i < Len(workers)
               THEN main_i' = main_i + 1 /\ UNCHANGED main_pc
               ELSE main_i' = 0 /\ main_pc' = "tts_stop"
            /\ UNCHANGED main_exc
    /\ UNCHANGED <<stop_event, tm_stop, workerPcs, workers, offMain, at_stop>>

\* TTSManager.stop: self.stop_event.set(); self.worker_thread.join(timeout=1)
stop == tm_stop' = TRUE

\* if tts_manager: tts_manager.stop(); then main returns, or the exception that
\* entered the finally block goes on
MainStopTTS ==
    /\ main_pc = "tts_stop"
    /\ stop
    /\ main_pc' = IF main_exc THEN "raised" ELSE "done"
    /\ UNCHANGED <<stop_event, workerPcs, main_i, workers, main_exc, offMain, at_stop>>

MainStep == MainConstruct \/ MainStart \/ MainSet \/ MainJoin \/ MainStopTTS

\* ----------------------------------------------------------- SessionManager
\* The saved dict keeps the fields the manager's own code reads back
\* (session_id, start_time, end_time, status, event_count, events); an event
\* keeps timestamp, source_text, translated_text.

\* session_id = f"session_{int(time.time())}_{os.getpid()}", the pid being fixed
SessionId(now) == now \div ClockRes

\* the (source_text, translated_text) pairs record_event is called with
EventInputs == {<<"a", "x">>, <<"b", "y">>}

AppendEvent_front(events, event) == <<event>> \o events

\* self.current_session.events.append(event)
AppendEvent(events, event) == Append(events, event)

\* Session.to_dict, as json.dump writes it and json.load reads it back
to_dict(session) ==
    [session_id |-> session.session_id,
     start_time |-> session.start_time,
     end_time |-> session.end_time,
     status |-> session.status,
     event_count |-> Len(session.events),
     events |-> session.events]

\* a directory with the file of session id written, or overwritten
WriteFile(dir, id, data) ==
    [i \in DOMAIN dir \cup {id} |-> IF i = id THEN data ELSE dir[i]]

\* a directory with the files of ids unlinked
Unlink(dir, ids) == [i \in DOMAIN dir \ ids |-> dir[i]]

\* time passes
Tick ==
    /\ sm_now < MaxNow
    /\ sm_now' = sm_now + 1
    /\ UNCHANGED <<current_session, sessions_dir, archive_dir, sm_id, sm_recorded,
                   sm_last, sm_starts>>
    /\ UNCHANGED <<pipeVars, mainVars, twVars, last_drop, stopVars>>

start_session ==
    /\ sm_starts < MaxSessions
    /\ sm_starts' = sm_starts + 1
    /\ current_session' = [session_id |-> SessionId(sm_now),
                           start_time |-> sm_now,
                           end_time |-> 0,
                           status |-> "active",
                           events |-> <<>>]
    /\ sm_id' = SessionId(sm_now)
    /\ sm_recorded' = <<>>
    /\ sm_last' = "other"
    /\ UNCHANGED <<sessions_dir, archive_dir, sm_now>>
    /\ UNCHANGED <<pipeVars, mainVars, twVars, last_drop, stopVars>>

record_event ==
    /\ \E in \in EventInputs :
          IF current_session = NoSession
          THEN /\ sm_last' = "other"
               /\ sm_recorded' = <<>>
               /\ UNCHANGED current_session
          ELSE LET event == [timestamp |-> sm_now, source_text |-> in[1],
                             translated_text |-> in[2]]
               IN  /\ Len(current_session.events) < MaxEvents
                   /\ current_session' =
                         [current_session EXCEPT
                             !.events = AppendEvent(current_session.events, event)]
                   /\ sm_recorded' = Append(sm_recorded, event)
                   /\ sm_last' = "other"
    /\ UNCHANGED <<sessions_dir, archive_dir, sm_now, sm_id, sm_starts>>
    /\ UNCHANGED <<pipeVars, mainVars, twVars, last_drop, stopVars>>

end_session ==
    /\ IF current_session = NoSession
       THEN /\ sm_last' = "other"
            /\ sm_recorded' = <<>>
            /\ UNCHANGED <<current_session, sessions_dir>>
       ELSE LET ended == [current_session EXCEPT !.end_time = sm_now,
                                                 !.status = "completed"]
            IN  /\ sessions_dir' = WriteFile(sessions_dir, ended.session_id,
                                             to_dict(ended))
                /\ current_session' = NoSession
                /\ sm_last' = "end"
                /\ UNCHANGED sm_recorded
    /\ UNCHANGED <<archive_dir, sm_now, sm_id, sm_starts>>
    /\ UNCHANGED <<pipeVars, mainVars, twVars, last_drop, stopVars>>

\* the values archive_old_sessions is called with: 0 and the configured default
ThresholdDays == {0, archive_threshold_days}

\* the saved sessions archive_old_sessions moves
Old(threshold_time) ==
    {id \in DOMAIN sessions_dir :
        /\ sessions_dir[id].status = "completed"
        /\ sessions_dir[id].end_time # 0
        /\ sessions_dir[id].end_time < threshold_time}

archive_old_sessions ==
    /\ \E threshold_days \in ThresholdDays :
          LET threshold_time == sm_now - threshold_days * 24 * 3600 * ClockRes
              old == Old(threshold_time)
          IN  /\ archive_dir' =
                    [i \in DOMAIN archive_dir \cup old |->
                        IF i \in old
                        THEN [sessions_dir[i] EXCEPT !.status = "archived"]
                        ELSE archive_dir[i]]
              /\ sessions_dir' = Unlink(sessions_dir, old)
    /\ sm_last' = "other"
    /\ sm_recorded' = IF current_session = NoSession THEN <<>> ELSE sm_recorded
    /\ UNCHANGED <<current_session, sm_now, sm_id, sm_starts>>
    /\ UNCHANGED <<pipeVars, mainVars, twVars, last_drop, stopVars>>

\* the ids unarchive_session is called with
SessionIds == 0..SessionId(MaxNow)

unarchive_session ==
    /\ \E session_id \in SessionIds :
          IF session_id \notin DOMAIN archive_dir
          THEN UNCHANGED <<sessions_dir, archive_dir>>
          ELSE /\ sessions_dir' =
                     WriteFile(sessions_dir, session_id,
                               [archive_dir[session_id] EXCEPT !.status = "completed"])
               /\ archive_dir' = Unlink(archive_dir, {session_id})
    /\ sm_last' = "other"
    /\ sm_recorded' = IF current_session = NoSession THEN <<>> ELSE sm_recorded
    /\ UNCHANGED <<current_session, sm_now, sm_id, sm_starts>>
    /\ UNCHANGED <<pipeVars, mainVars, twVars, last_drop, stopVars>>

\* get_sessions(status): the files it reads, each named by directory and id;
\* status "none" is the call without a status filter
Stored(status) ==
    {f \in ({"sessions"} \X DOMAIN sessions_dir) :
        status = "none" \/ sessions_dir[f[2]].status = status}
    \cup
    {f \in ({"archive"} \X DOMAIN archive_dir) :
        /\ status \in {"none", "archived"}
        /\ status = "none" \/ archive_dir[f[2]].status = status}

FileData(f) == IF f[1] = "sessions" THEN sessions_dir[f[2]] ELSE archive_dir[f[2]]

\* the lists get_sessions(status) can return: the files read, most recent start
\* first, in whatever order the directory listing and the sort leave ties
get_sessions(status) ==
    LET files == Stored(status)
        n == Cardinality(files)
    IN  { [i \in 1..n |-> FileData(order[i])] :
            order \in { o \in [1..n -> files] :
                          /\ \A i, j \in 1..n : i # j => o[i] # o[j]
                          /\ \A i, j \in 1..n :
                                i < j => FileData(o[i]).start_time
                                           >= FileData(o[j]).start_time } }

RECURSIVE TotalEvents(_)
TotalEvents(sessions) ==
    IF sessions = <<>> THEN 0
    ELSE Len(Head(sessions).events) + TotalEvents(Tail(sessions))

\* what export_to_json and export_to_csv return, called without filters
export_to_json == {Len(sessions) : sessions \in get_sessions("none")}
export_to_csv == {TotalEvents(sessions) : sessions \in get_sessions("none")}

\* ------------------------------------------------------------ specifications
\* the state main leaves after constructing the TTSManager, the queues and the
\* workers and starting them
\* the state main builds before its try block: the TTSManager and its thread,
\* the flag, the queues
InitData ==
    /\ stop_event = FALSE
    /\ speaking = FALSE
    /\ tts_queue = <<>>
    /\ tm_engine \in BOOLEAN
    /\ tm_stop = FALSE
    /\ tm_pc = IF tm_engine THEN "loop" ELSE "off"
    /\ tm_text = <<>>
    /\ vad2stt = <<>>
    /\ frame = NoFrame
    /\ chunk_buffer = <<>>
    /\ chunk_start_ms = 0
    /\ ts_ms = 0
    /\ in_speech = FALSE
    /\ silence_frames = 0
    /\ vad_out = NoChunk
    /\ vad_path = "none"
    /\ frame_echo = FALSE
    /\ buf_echo = FALSE
    /\ gate_flushes = 0
    /\ chunks_made = 0
    /\ stt2mt = <<>>
    /\ stt_item = NoChunk
    /\ stt_evt = NoEvent
    /\ stt_seq = 0
    /\ stt_log = <<>>
    /\ delivered = {}
    /\ dups = 0
    /\ mt2tts = <<>>
    /\ mt_model \in BOOLEAN
    /\ mt_evt = NoEvent
    /\ mt_out = NoEvent
    /\ mt_fallback = FALSE
    /\ last_translated = [q \in {} |-> <<>>]
    /\ context_window = <<>>
    /\ mt_calls = 0
    /\ mt_log = <<>>
    /\ current_session = NoSession
    /\ sessions_dir = NoFiles
    /\ archive_dir = NoFiles
    /\ sm_now = ClockRes
    /\ sm_id = 0
    /\ sm_recorded = <<>>
    /\ sm_last = "other"
    /\ sm_starts = 0
    /\ tw_evt = NoEvent
    /\ tw_log = <<>>
    /\ tts_tags = <<>>
    /\ tm_tag = -1
    /\ said_log = <<>>
    /\ last_drop = NoDrop
    /\ late_gets = [stt |-> 0, mt |-> 0, tts |-> 0]
    /\ at_stop = [stt |-> <<>>, mt |-> <<>>, tts |-> <<>>]

\* the four workers made and started, main asleep in time.sleep
Running ==
    /\ vad_pc = "loop"
    /\ stt_pc = "loop"
    /\ mt_pc = "loop"
    /\ tw_pc = "loop"
    /\ stt_model = TRUE
    /\ main_pc = "sleep"
    /\ main_i = 0
    /\ workers = WorkerNames
    /\ main_exc = FALSE

\* main about to enter its try block: workers = [], no thread made
AtStart ==
    /\ vad_pc = "new"
    /\ stt_pc = "new"
    /\ mt_pc = "new"
    /\ tw_pc = "new"
    /\ stt_model \in BOOLEAN
    /\ main_pc = "construct"
    /\ main_i = 0
    /\ workers = <<>>
    /\ main_exc = FALSE

InitCommon == InitData /\ Running

STTStep == STTLoop \/ STTGet \/ STTEmpty \/ STTTranscribe \/ STTRaise \/ STTPut
              \/ STTPutTimeout
MTStep == MTLoop \/ MTGet \/ MTEmpty \/ MTWork \/ MTPut \/ MTPutTimeout
VADStep == VADLoop \/ VADRead \/ VADProcess \/ VADPut
TMStep == TMLoop \/ TMGet \/ TMEmpty \/ TMEngage \/ TMSayStart \/ TMSayRaise
             \/ TMExcept \/ TMSayEnd \/ TMCool \/ TMRelease

\* the chunker on a planned signal, nothing asking for speech
InitSeg == InitCommon /\ mic \in Plans /\ mt_model
NextSeg == VADStep
SpecSeg == InitSeg /\ [][NextSeg]_vars

\* the chunker on the scenario signal: 10 silence frames, 40 speech frames, 20
\* silence frames
ScenarioPlan == [free |-> FALSE, lead |-> 10, nsp |-> 40, nsil |-> 20, reps |-> 1]
InitScenario == InitCommon /\ mic = ScenarioPlan /\ mt_model
SpecScenario == InitScenario /\ [][NextSeg]_vars

\* the chunker on an utterance with a pause in it, twice: 10 speech frames and
\* 8 silence frames, then the same again
PausePlan == [free |-> FALSE, lead |-> 0, nsp |-> 10, nsil |-> 8, reps |-> 2]
InitPause == InitCommon /\ mic = PausePlan /\ mt_model
SpecPause == InitPause /\ [][NextSeg]_vars

\* the chunker on an unconstrained signal, beside the TTSManager worker
\* (the translation model's load does not touch this part: taken as loaded)
InitVAD == InitCommon /\ mic = FreeMic /\ mt_model
NextVAD == VADStep \/ VADPutTimeout \/ TakeChunk \/ TMStep \/ Speak
SpecVAD == InitVAD /\ [][NextVAD]_vars

\* the transcriber and the translator, fed by the chunker seen as a source of
\* chunks and drained by the TTS stage seen as a taker of events
ChunkSource == [free |-> FALSE, lead |-> 0, nsp |-> 0, nsil |-> 0, reps |-> 0]
\* (the TTS engine's start does not touch this part: taken as started)
InitStages == InitCommon /\ mic = ChunkSource /\ tm_engine
NextStages == ChunkArrive \/ STTStep \/ Redeliver \/ MTStep \/ TakeTranslation
SpecStages == InitStages /\ [][NextStages]_vars

\* the two views of the pipeline side by side: the chunker beside the
\* TTSManager worker, or the transcriber and the translator
InitAll == InitVAD \/ InitStages
InView(front, A) == mic.free = front /\ A
NextAll ==
    \/ InView(TRUE, VADLoop) \/ InView(TRUE, VADRead) \/ InView(TRUE, VADProcess)
    \/ InView(TRUE, VADPut) \/ InView(TRUE, VADPutTimeout)
    \/ InView(TRUE, TakeChunk) \/ InView(TRUE, Speak)
    \/ InView(TRUE, TMLoop) \/ InView(TRUE, TMGet) \/ InView(TRUE, TMEmpty)
    \/ InView(TRUE, TMEngage) \/ InView(TRUE, TMSayStart)
    \/ InView(TRUE, TMSayRaise) \/ InView(TRUE, TMExcept)
    \/ InView(TRUE, TMSayEnd)
    \/ InView(TRUE, TMCool) \/ InView(TRUE, TMRelease)
    \/ InView(FALSE, ChunkArrive) \/ InView(FALSE, Redeliver)
    \/ InView(FALSE, STTLoop) \/ InView(FALSE, STTGet) \/ InView(FALSE, STTEmpty)
    \/ InView(FALSE, STTTranscribe) \/ InView(FALSE, STTRaise)
    \/ InView(FALSE, STTPut) \/ InView(FALSE, STTPutTimeout)
    \/ InView(FALSE, MTLoop) \/ InView(FALSE, MTGet) \/ InView(FALSE, MTEmpty)
    \/ InView(FALSE, MTWork) \/ InView(FALSE, MTPut) \/ InView(FALSE, MTPutTimeout)
    \/ InView(FALSE, TakeTranslation)
SpecAll == InitAll /\ [][NextAll]_vars

\* the TTSManager worker alone, asked for arbitrary texts and stopped at any time
InitTTS == InitCommon /\ mic = FreeMic /\ mt_model
NextTTS == TMStep \/ SpeakAny \/ ManagerStop
SpecTTS == InitTTS /\ [][NextTTS]_vars
\* the worker thread keeps being scheduled and its blocking calls return
FairTTS == SpecTTS /\ WF_vars(TMStep)

\* the SessionManager, called in any order while time passes
NextSess == Tick \/ start_session \/ record_event \/ end_session
               \/ archive_old_sessions \/ unarchive_session
InitSess == InitTTS /\ tm_engine
SpecSess == InitSess /\ [][NextSess]_vars

\* the three downstream workers with a backlog in their queues, main setting
\* the flag at any time
InitDrain == InitCommon /\ mic = BacklogSource /\ tm_engine /\ mt_model
NextDrain == ChunkArrive \/ STTStep \/ MTStep \/ TWStep \/ MainElapsed \/ MainSet
SpecDrain == InitDrain /\ [][NextDrain]_vars

\* the TTSManager worker under a burst of requests
NextBurst == TMStep \/ SpeakBurst \/ ManagerStop
SpecBurst == InitTTS /\ [][NextBurst]_vars

\* a signal of utterances that each make a chunk: a speech run just over
\* CHUNK_MIN_MS, then silence just over the threshold, three times over
RunPlan == [free |-> FALSE, lead |-> 0, nsp |-> CHUNK_MIN_MS \div FRAME_MS + 1,
            nsil |-> SILENCE_THRESHOLD + 1, reps |-> 3]

\* the translator alone, fed with transcripts short and longer than the
\* context budget; the transcriber is seen as their source
LongText == <<"b">> \o [i \in 1..CONTEXT_CHARS |-> "a"]
TranscriptTexts == {<<"c", ".">>, <<"d", "?">>, LongText}
TranscriptArrive ==
    /\ stt_seq < MaxChunks
    /\ Len(stt2mt) < MaxQueue
    /\ \E text \in TranscriptTexts :
          stt2mt' = Append(stt2mt, make_event("final_transcript", stt_seq, text,
                                              0, 0))
    /\ stt_seq' = stt_seq + 1
    /\ UNCHANGED <<stt_pc, stt_item, stt_evt, stt_log>>
    /\ UNCHANGED <<envVars, vad2stt, mt2tts, vadVars, tmVars, mtVars, sideVars>>
NextContext == TranscriptArrive \/ MTStep \/ TakeTranslation
SpecContext == InitStages /\ [][NextContext]_vars

\* the run up to the end of its workers, every engine call and every frame
\* read returning: main asleep, then at the first line of its finally block,
\* beside the chunker on its signal or beside the three workers downstream of it
OnMic(m, A) == mic = m /\ A
ChunkerStep == OnMic(RunPlan, VADStep \/ VADPutTimeout)
TranscriberStep ==
    OnMic(ChunkSource, STTLoop \/ STTGet \/ STTEmpty \/ STTTranscribe \/ STTPut
                          \/ STTPutTimeout)
TranslatorStep == OnMic(ChunkSource, MTStep)
SynthesizerStep == OnMic(ChunkSource, TWStep)
InitStop == InitCommon /\ mic \in {RunPlan, ChunkSource} /\ tm_engine /\ mt_model
NextStop ==
    \/ MainElapsed \/ MainSet
    \/ ChunkerStep \/ OnMic(RunPlan, TakeChunk)
    \/ OnMic(ChunkSource, ChunkArrive)
    \/ TranscriberStep \/ TranslatorStep \/ SynthesizerStep
SpecStop == InitStop /\ [][NextStop]_vars
\* each worker thread keeps being scheduled, and its gets and puts return or
\* time out; nothing is assumed of main, of the signal or of the other stages
FairStop == SpecStop /\ WF_vars(ChunkerStep) /\ WF_vars(TranscriberStep)
                     /\ WF_vars(TranslatorStep) /\ WF_vars(SynthesizerStep)

\* the transcriber, the translator, TTSWorker and the TTSManager worker in a
\* row, fed by the chunker seen as a source of chunks
InitPipe == InitCommon /\ mic = ChunkSource /\ tm_engine
NextPipe == ChunkArrive \/ STTStep \/ MTStep \/ TWStep \/ TMStep
SpecPipe == InitPipe /\ [][NextPipe]_vars

\* main from the top of its try block, beside the chunker it starts; the models
\* load or fail to, the device opens and reads or fails to, the user presses
\* Ctrl+C at any time
InitMain == InitData /\ AtStart /\ mic = RunPlan /\ tm_engine
NextMain ==
    \/ MainStep \/ MainElapsed \/ MainInterrupt
    \/ VADOpen \/ VADOpenFail \/ VADReadFail
    \/ VADStep \/ VADPutTimeout \/ TakeChunk
SpecMain == InitMain /\ [][NextMain]_vars
\* main and the chunker keep being scheduled and their blocking calls return;
\* nothing makes the sleep end, the user press Ctrl+C or the device fail
FairMain == SpecMain /\ WF_vars(MainStep) /\ WF_vars(VADOpen) /\ WF_vars(VADStep)
                     /\ WF_vars(VADPutTimeout)

\* every thread of the program, in three views: the chunker on an
\* unconstrained signal beside the TTSManager worker; the transcriber, the
\* translator, TTSWorker and the TTSManager worker in a row; main from the top
\* of its try block beside the chunker and the TTSManager worker
InitEvery == InitVAD \/ InitPipe \/ InitMain
NextEvery ==
    \/ OnMic(FreeMic, NextVAD)
    \/ OnMic(ChunkSource, NextPipe)
    \/ OnMic(RunPlan, NextMain \/ TMStep)
SpecEvery == InitEvery /\ [][NextEvery]_vars

\* ------------------------------------------------------------------ claims
Queued == Range(vad2stt) \cup (IF vad_out = NoChunk THEN {} ELSE {vad_out})

PlanDone == ~mic.free /\ vad_pc = "loop" /\ ts_ms = PlanLen(mic) * FRAME_MS

\* the one chunk the claim describes for a planned signal
PlanChunkEmitted ==
    /\ Len(vad2stt) = 1
    /\ vad2stt[1].start_ms = mic.lead * FRAME_MS
    /\ vad2stt[1].audio[1].ts = mic.lead * FRAME_MS
    /\ vad2stt[1].end_ms = vad2stt[1].audio[Len(vad2stt[1].audio)].ts

\* C1 as stated: on a signal of lead silence, a speech run of at least
\* CHUNK_MIN_MS and at least 14 silence frames, read with the gate open and room
\* in the queue, exactly one chunk is put; start_ms is the first speech frame's
\* timestamp and end_ms the timestamp of the last frame in its buffer.
C1_AtLeastThreshold ==
    (PlanDone /\ mic.nsp * FRAME_MS >= CHUNK_MIN_MS /\ mic.nsil >= SILENCE_THRESHOLD)
        => PlanChunkEmitted

\* C1 amended: the same with more than 14 (at least 15) trailing silence
\* frames; and never more than one chunk on the way.
C1_MoreThanThreshold ==
    /\ Len(vad2stt) <= 1
    /\ (PlanDone /\ mic.nsp * FRAME_MS >= CHUNK_MIN_MS /\ mic.nsil > SILENCE_THRESHOLD)
          => PlanChunkEmitted

C1_Witness ==
    /\ PlanDone
    /\ mic.nsp * FRAME_MS >= CHUNK_MIN_MS
    /\ mic.nsil > SILENCE_THRESHOLD
    /\ Len(vad2stt) = 1

\* a step of the chunker that found the gate closed for the frame in hand
GateStep == vad_pc = "frame" /\ vad_pc' # "frame" /\ speaking

\* a step that ends the put of a gate-forced flush
GatePutStep == vad_pc = "put" /\ vad_pc' # "put" /\ vad_path = "gate"

\* the decision of the gate branch while accumulating: a chunk of the buffer is
\* handed to put iff the buffered duration is at least CHUNK_MIN_MS; the buffer
\* is cleared and the chunker is Idle either way, whatever silence_frames is
GateFlushDecision ==
    (GateStep /\ in_speech) =>
        /\ (vad_pc' = "put") <=> (Len(chunk_buffer) * FRAME_MS >= CHUNK_MIN_MS)
        /\ vad_pc' \in {"put", "loop"}
        /\ vad_pc' = "put" =>
              /\ vad_out'.audio = chunk_buffer
              /\ vad_out'.start_ms = chunk_start_ms
        /\ chunk_buffer' = <<>>
        /\ ~in_speech'
        /\ silence_frames' = 0
        /\ vad2stt' = vad2stt

\* C2 as stated: found closed while accumulating, the buffer is put on the
\* queue as one chunk iff its duration is at least CHUNK_MIN_MS, else nothing
\* is emitted; the buffer is cleared and the chunker Idle in both cases.
C2_FlushIffMinDuration ==
    /\ [][GateFlushDecision]_vars
    /\ [][GatePutStep => vad2stt' = Append(vad2stt, vad_out)]_vars

\* C2 amended: ... is put on the queue as one chunk iff its duration is at
\* least CHUNK_MIN_MS and the queue has room before the put times out; with the
\* queue full the chunk is dropped and the queue is left as it was.
C2_FlushIffMinDurationAndRoom ==
    /\ [][GateFlushDecision]_vars
    /\ [][GatePutStep =>
            IF Len(vad2stt) < MaxQueue
            THEN vad2stt' = Append(vad2stt, vad_out)
            ELSE vad2stt' = vad2stt]_vars

C2_Witness ==
    /\ vad_pc = "put"
    /\ vad_path = "gate"
    /\ Len(vad_out.audio) * FRAME_MS >= CHUNK_MIN_MS
    /\ silence_frames = 0
    /\ Len(vad2stt) = MaxQueue

\* C3: no frame the chunker examined with the gate closed is in the buffer or
\* in a chunk, and between two frames found open at most one flush is made.
C3_ClosedFramesDiscarded ==
    /\ gate_flushes <= 1
    /\ \A f \in Range(chunk_buffer) : ~f.closed
    /\ \A c \in Queued : \A f \in Range(c.audio) : ~f.closed

C3_Witness ==
    /\ vad_pc = "loop"
    /\ frame # NoFrame
    /\ frame.closed
    /\ gate_flushes = 1
    /\ speaking
    /\ vad2stt # <<>>

\* C4: no frame whose read overlapped the engine's playback is in the buffer or
\* in a chunk.
C4_NoEchoBuffered ==
    /\ ~buf_echo
    /\ \A c \in Queued : ~c.echo

InCycle == tm_pc \in {"say", "playing", "except", "cool", "release"}

\* C10: the flag is set from before the engine call until after the cool-down;
\* it is set only by the engage step and cleared only by the release step that
\* follows the cool-down; every engage is followed by a release.
C10_EngageRelease ==
    /\ [](InCycle => speaking)
    /\ [][(~speaking /\ speaking') => (tm_pc = "engage" /\ tm_pc' = "say")]_vars
    /\ [][(speaking /\ ~speaking') => (tm_pc = "release" /\ tm_pc' = "loop")]_vars
    /\ [][(tm_pc # "release" /\ tm_pc' = "release") => tm_pc = "cool"]_vars
    /\ [][(tm_pc # "cool" /\ tm_pc' = "cool") => tm_pc \in {"playing", "except"}]_vars
    /\ (speaking ~> ~speaking)

C10_Witness == tm_pc = "release" /\ speaking /\ tm_stop

StrictlyIncreasing(log) == \A i, j \in 1..Len(log) : i < j => log[i] < log[j]

\* C5: the seq values of the events STTWorker places on its output queue are
\* strictly increasing in emission order, hence never used twice.
C5_SeqStrictlyIncreasing == StrictlyIncreasing(stt_log)

C5_Witness == stt_log = <<0, 2>> /\ stt_seq = 3

\* C6: with events delivered twice, at most one final_translation per seq is
\* placed on the output queue and the engine is called at most once per distinct
\* event; an event that is not a repeat is handed to put, and put places it when
\* the queue has room; a repeat makes no engine call and emits nothing.
C6_AtMostOncePerSeq ==
    /\ [](\A i, j \in 1..Len(mt_log) : i # j => mt_log[i] # mt_log[j])
    /\ [](mt_calls <= Cardinality(delivered))
    /\ [][(mt_pc = "work" /\ mt_pc' # "work" /\ mt_evt \in delivered
              /\ mt_evt.seq \notin DOMAIN last_translated)
            => (mt_pc' = "put" /\ mt_out'.seq = mt_evt.seq)]_vars
    /\ [][(mt_pc = "put" /\ mt_pc' # "put" /\ Len(mt2tts) < MaxQueue)
            => mt2tts' = Append(mt2tts, mt_out)]_vars
    /\ [][(mt_pc = "work" /\ mt_pc' # "work" /\ mt_evt.seq \in DOMAIN last_translated)
            => (mt_pc' = "loop" /\ mt_calls' = mt_calls /\ mt2tts' = mt2tts
                /\ mt_out' = NoEvent)]_vars

C6_Witness ==
    /\ mt_pc = "work"
    /\ mt_evt.seq \in DOMAIN last_translated
    /\ mt_evt.seq \in Range(mt_log)
    /\ mt_model
    /\ Len(mt2tts) < MaxQueue

\* C7: a stage waiting in its put can always take a step, and when the queue is
\* full that step drops the item, leaves the queue as it is and takes the stage
\* back to the head of its loop.
C7_PutNeverBlocks ==
    /\ [](vad_pc = "put" => ENABLED (VADPut \/ VADPutTimeout))
    /\ [](stt_pc = "put" => ENABLED (STTPut \/ STTPutTimeout))
    /\ [](mt_pc = "put" => ENABLED (MTPut \/ MTPutTimeout))
    /\ [][(vad_pc = "put" /\ vad_pc' # "put")
            => /\ vad_pc' = "loop"
               /\ vad_out' = NoChunk
               /\ Len(vad2stt) >= MaxQueue => vad2stt' = vad2stt]_vars
    /\ [][(stt_pc = "put" /\ stt_pc' # "put")
            => /\ stt_pc' = "loop"
               /\ stt_evt' = NoEvent
               /\ Len(stt2mt) >= MaxQueue => stt2mt' = stt2mt]_vars
    /\ [][(mt_pc = "put" /\ mt_pc' # "put")
            => /\ mt_pc' = "loop"
               /\ mt_out' = NoEvent
               /\ Len(mt2tts) >= MaxQueue => mt2tts' = mt2tts]_vars

C7_Witness ==
    /\ stt_pc = "put"
    /\ Len(stt2mt) >= MaxQueue
    /\ mt_pc = "put"
    /\ Len(mt2tts) >= MaxQueue

\* C8: an engine error never ends the stage that made the call.
C8_EngineErrorNotFatal == stt_pc # "dead"

\* the event the fallback is to produce for the event in hand
FallbackEvent ==
    make_event("final_translation", mt_evt.seq, mt_evt.text,
               mt_evt.start_ms, mt_evt.end_ms)

\* C9 as stated: on an engine failure or a missing model the event is not
\* dropped: a final_translation with the input's seq and timestamps and the
\* bare source text is emitted.
C9_FallbackEmitted ==
    /\ []((mt_pc = "put" /\ mt_fallback) => mt_out = FallbackEvent)
    /\ [][(mt_pc = "put" /\ mt_fallback /\ mt_pc' # "put")
            => mt2tts' = Append(mt2tts, FallbackEvent)]_vars

\* C9 amended: ... is handed to the output put, which places it on the queue
\* unless the queue stays full for the timeout; then it is dropped.
C9_FallbackEmittedIfRoom ==
    /\ []((mt_pc = "put" /\ mt_fallback) => mt_out = FallbackEvent)
    /\ [][(mt_pc = "put" /\ mt_fallback /\ mt_pc' # "put")
            => IF Len(mt2tts) < MaxQueue
               THEN mt2tts' = Append(mt2tts, FallbackEvent)
               ELSE mt2tts' = mt2tts]_vars

C9_Witness ==
    /\ mt_pc = "put"
    /\ mt_fallback
    /\ mt_model
    /\ Cardinality(DOMAIN last_translated) >= 2
    /\ Len(mt2tts) < MaxQueue

\* C20: STTWorker.seq changes only in a step that places the event on stt2mt;
\* an empty text, an engine failure and a put dropped on a full queue leave it
\* as it is.
C20_SeqAdvancesOnlyOnEmission ==
    [][stt_seq' # stt_seq => stt2mt' = Append(stt2mt, stt_evt)]_vars

\* the duration d is within two frame durations of the speech run's length
NearSpeechRun(d) ==
    /\ d >= (mic.nsp - 2) * FRAME_MS
    /\ d <= (mic.nsp + 2) * FRAME_MS

\* C18 as stated: on the scenario signal exactly one chunk is emitted, and its
\* duration, by its timestamps and by its buffered audio, is within one or two
\* frame durations of the 1200 ms speech run.
C18_DurationIsSpeechRun ==
    /\ Len(vad2stt) <= 1
    /\ PlanDone =>
          /\ Len(vad2stt) = 1
          /\ NearSpeechRun(vad2stt[1].end_ms - vad2stt[1].start_ms)
          /\ NearSpeechRun(ChunkLenMs(vad2stt[1].audio))

\* C18 amended: on the scenario signal exactly one chunk is emitted; it starts
\* at the first speech frame, its buffered audio is the speech run and the 15
\* silence frames that close it (1650 ms), and end_ms - start_ms is one frame
\* less (1620 ms).
C18_DurationIncludesSilence ==
    /\ Len(vad2stt) <= 1
    /\ PlanDone =>
          /\ Len(vad2stt) = 1
          /\ vad2stt[1].start_ms = mic.lead * FRAME_MS
          /\ ChunkLenMs(vad2stt[1].audio)
                = (mic.nsp + SILENCE_THRESHOLD + 1) * FRAME_MS
          /\ vad2stt[1].end_ms - vad2stt[1].start_ms
                = (mic.nsp + SILENCE_THRESHOLD) * FRAME_MS

C18_Witness ==
    /\ mic = ScenarioPlan
    /\ PlanDone
    /\ Len(vad2stt) = 1
    /\ vad2stt[1].end_ms - vad2stt[1].start_ms = 1620

\* C11: the number of pending synthesis requests never exceeds the fixed
\* capacity of the program's queues (QUEUE_SIZE); a request arriving at capacity
\* is discarded.
C11_RequestQueueBounded == Len(tts_queue) <= QUEUE_SIZE

\* an engine call that raises takes the worker to the except clause and then to
\* the finally block, never out of its loop
RaiseIsCaught ==
    /\ [][(tm_pc \in {"say", "playing"} /\ tm_pc' \notin {"say", "playing"})
            => tm_pc' \in {"except", "cool"}]_vars
    /\ [][(tm_pc = "except" /\ tm_pc' # "except") => tm_pc' = "cool"]_vars

Matching(sessions) ==
    {i \in 1..Len(sessions) :
        /\ sessions[i].session_id = sm_id
        /\ sessions[i].status = "completed"
        /\ sessions[i].event_count = Len(sm_recorded)
        /\ sessions[i].events = sm_recorded}

\* the events the files of a directory hold
RECURSIVE EventsOf(_, _)
EventsOf(dir, ids) ==
    IF ids = {} THEN 0
    ELSE LET id == CHOOSE i \in ids : TRUE
         IN  dir[id].event_count + EventsOf(dir, ids \ {id})

EventsIn(dir) == EventsOf(dir, DOMAIN dir)

C13_DeviceFailureStopsRun == (vad_pc = "dead") ~> stop_event

\* C14 as stated: in a run where the transcription model or the translation
\* model fails to load, no worker thread is ever started and no frame is read.
C14_LoadFailureAborts ==
    (~stt_model \/ ~mt_model) =>
        /\ vad_pc = "new" /\ stt_pc = "new" /\ mt_pc = "new" /\ tw_pc = "new"
        /\ frame = NoFrame /\ ts_ms = 0


\* main has left its try statement, by its last line or by an exception
MainExited == main_pc \in {"done", "raised"}

\* every w.join(timeout=2) of the finally block has returned
JoinsReturned == main_pc \in {"tts_stop", "done", "raised"} /\ main_i = 0

\* C17 as stated: on every exit path of main the shutdown runs in one order,
\* the shared flag first, then the join of each worker, then the stop of the
\* TTSManager worker: the joins and the stop come with the flag set, the stop
\* comes after every join has returned, and main does not leave before the stop.
C17_ShutdownOrder ==
    /\ main_pc \in {"join", "tts_stop"} => stop_event
    /\ tm_stop => stop_event /\ JoinsReturned
    /\ MainExited => stop_event /\ tm_stop


\* the elements of a appear in b, in the order they have in a
RECURSIVE IsSubseq(_, _)
IsSubseq(a, b) ==
    IF a = <<>> THEN TRUE
    ELSE IF b = <<>> THEN FALSE
    ELSE IF Head(a) = Head(b) THEN IsSubseq(Tail(a), Tail(b))
    ELSE IsSubseq(a, Tail(b))

NoItemLeft ==
    /\ vad_pc = "done" => vad_out = NoChunk
    /\ stt_pc = "done" => stt_item = NoChunk /\ stt_evt = NoEvent
    /\ mt_pc = "done" => mt_evt = NoEvent /\ mt_out = NoEvent
    /\ tw_pc = "done" => tw_evt = NoEvent

\* a worker leaves only at its loop test, with the flag set
ExitAtLoopTest ==
    /\ (vad_pc # "done" /\ vad_pc' = "done") => (vad_pc = "loop" /\ stop_event)
    /\ (stt_pc # "done" /\ stt_pc' = "done") => (stt_pc = "loop" /\ stop_event)
    /\ (mt_pc # "done" /\ mt_pc' = "done") => (mt_pc = "loop" /\ stop_event)
    /\ (tw_pc # "done" /\ tw_pc' = "done") => (tw_pc = "loop" /\ stop_event)

\* C16: once the shared flag is set every stage worker ends, provided its
\* engine calls and frame reads return; a worker that is in the middle of an
\* item (the input of one loop iteration) when the flag is set leaves only at
\* its next loop test, after the put of that item has placed it or timed out.
C16_StopTerminatesWorkers ==
    /\ (stop_event /\ mic = RunPlan) ~> (vad_pc = "done")
    /\ (stop_event /\ mic = ChunkSource)
           ~> (stt_pc = "done" /\ mt_pc = "done" /\ tw_pc = "done")
    /\ []NoItemLeft
    /\ [][ExitAtLoopTest]_vars

\* the flag is set while the transcriber is at the put of an item, the workers
\* downstream of it already gone
C16_Witness ==
    /\ stop_event
    /\ stt_pc = "put"
    /\ mt_pc = "done"
    /\ tw_pc = "done"


\* the number of silence frames at the end of a buffer read from a planned
\* signal, back to the last speech frame
RECURSIVE TrailingSilence(_)
TrailingSilence(buf) ==
    IF buf = <<>> \/ TRUE \in FrameKinds(buf[Len(buf)].ts) THEN 0
    ELSE 1 + TrailingSilence(SubSeq(buf, 1, Len(buf) - 1))

\* C21 as stated: a chunk is closed by silence only when the silence frames
\* that end it form one run of more than 14 frames; silence frames separated
\* by a speech frame of the same chunk do not add up.
C21_ClosedByConsecutiveRun ==
    (vad_pc = "put" /\ vad_path = "silence") =>
        TrailingSilence(vad_out.audio) > SILENCE_THRESHOLD


\* the chunker is at the put of a chunk closed by trailing silence
SilencePut == vad_pc = "put" /\ vad_path = "silence"

\* C22: no chunk handed to the put by a trailing-silence close has a buffered
\* duration below CHUNK_MIN_MS.
C22_SilenceChunkMinDuration ==
    SilencePut => ChunkLenMs(vad_out.audio) >= CHUNK_MIN_MS

\* a chunk closed by silence is at the put, with room in the queue
C22_Witness ==
    /\ SilencePut
    /\ ChunkLenMs(vad_out.audio) > CHUNK_MIN_MS
    /\ Len(vad2stt) < MaxQueue

\* the frames a chunk closed by silence holds at the least: one speech frame
\* and the silence frames that exceed the threshold
MinSilenceChunk == 1 + (SILENCE_THRESHOLD + 1)

\* a step in which the chunker, accumulating, ends the chunk on a frame it
\* found the gate open for
SilenceCloseStep ==
    /\ vad_pc = "frame"
    /\ ~speaking
    /\ in_speech
    /\ ~in_speech'

\* C29: every chunk closed by trailing silence holds at least 16 frames
\* (480 ms), the buffer always holding the counted silence frames and a
\* speech frame; hence the minimum-duration test of that path never fails:
\* every close by silence goes on to the put, none discards the chunk.
C29_SilenceCloseNeverShort ==
    /\ [](SilencePut => Len(vad_out.audio) >= MinSilenceChunk)
    /\ [](in_speech => Len(chunk_buffer) >= silence_frames + 1)
    /\ [](MinSilenceChunk * FRAME_MS >= CHUNK_MIN_MS)
    /\ [][SilenceCloseStep => (vad_pc' = "put" /\ vad_path' = "silence")]_vars

\* a chunk of exactly 16 frames closed by silence: one speech frame, 15 silence
C29_Witness ==
    /\ SilencePut
    /\ Len(vad_out.audio) = MinSilenceChunk
    /\ vad_out.end_ms - vad_out.start_ms = (MinSilenceChunk - 1) * FRAME_MS


\* C30 as stated: for every chunk the chunker emits, by either path, end_ms is
\* the timestamp of the last frame of its buffer, so that end_ms - start_ms is
\* (number of buffered frames - 1) * FRAME_MS.
C30_EndIsLastBufferedFrame ==
    \A c \in Queued :
        /\ c.end_ms = c.audio[Len(c.audio)].ts
        /\ c.end_ms - c.start_ms = (Len(c.audio) - 1) * FRAME_MS


\* C23 as stated: every drop a stage makes because its output queue is full
\* comes with a warning, on each drop path of the chunker, the transcriber and
\* the translator.
C23_DropsAreWarned == last_drop # NoDrop => last_drop.warning


\* the seq values of the source texts processed before the event in hand
ProcessedBefore == {q \in DOMAIN last_translated : q < mt_evt.seq}

\* the source text processed last before the event in hand
PreviousSource ==
    last_translated[CHOOSE q \in ProcessedBefore : \A r \in ProcessedBefore : r <= q]

\* the engine's input for the event in hand, by the claim
ClaimedInput ==
    IF ProcessedBefore = {} THEN mt_evt.text
    ELSE Strip(LastChars(PreviousSource, CONTEXT_CHARS) \o <<" ">> \o mt_evt.text)

\* C24: the context prepended to a source text is the last 150 characters of
\* the one source text processed just before it, never an older text and never
\* a translation; the window never holds more than one text; the first event is
\* translated with no context.
C24_ContextIsPreviousSource ==
    /\ Len(context_window) <= CONTEXT_WINDOW
    /\ Len(Context) <= CONTEXT_CHARS
    /\ (mt_pc = "put" /\ ~mt_fallback) => mt_out.text = Translate(ClaimedInput)
    /\ mt_pc = "put" => context_window = <<mt_evt.text>>
    /\ (mt_pc = "work" /\ ProcessedBefore # {} /\ ~MTSkips(mt_evt))
           => context_window = <<PreviousSource>>
    /\ (mt_pc = "work" /\ DOMAIN last_translated = {}) => context_window = <<>>

\* the third event is at the put, translated after a text longer than the
\* budget whose first character was cut from the context
C24_Witness ==
    /\ mt_pc = "put"
    /\ ~mt_fallback
    /\ mt_evt.seq = 2
    /\ PreviousSource = LongText
    /\ Len(mt_out.text) = 1 + CONTEXT_CHARS + 1 + Len(mt_evt.text)


\* a text that is not empty and ends a sentence
EndsSentence(t) == t # <<>> /\ t[Len(t)] \in {".", "!", "?"}

\* segment lists the engine may return beyond those the pipeline model draws
MoreEngineOut ==
    EngineOut \cup { << <<"a", "!">> >>, << <<" ">>, <<" ">> >>,
                     << <<"a", ".", " ">>, <<"b">> >>, << <<"a">>, <<"b", ".">> >> }

\* C25: every final_transcript event STTWorker hands to its put, and every one
\* it has placed, has a non-empty text that ends in '.', '!' or '?'; a
\* transcription that is empty after trimming makes no event; a text that lacks
\* the punctuation gets a '.' and one that has it is left as it is.
C25_TranscriptsPunctuated ==
    /\ [](stt_evt # NoEvent => stt_evt.type = "final_transcript" /\ EndsSentence(stt_evt.text))
    /\ [](\A e \in delivered : e.type = "final_transcript" /\ EndsSentence(e.text))
    /\ [](\A segs \in MoreEngineOut :
             LET t == FinalText(segs)
             IN  /\ t # <<>> => (t[1] # " " /\ EndsSentence(Punctuate(t)))
                 /\ EndsSentence(t) => Punctuate(t) = t
                 /\ (t # <<>> /\ ~EndsSentence(t)) => Punctuate(t) = Append(t, "."))
    /\ [][(stt_pc = "work" /\ stt_pc' = "loop") => (stt_evt' = NoEvent /\ stt2mt' = stt2mt)]_vars

\* both kinds have been placed: a text that got its '.', a text that had its '?'
C25_Witness ==
    /\ \E e \in delivered : e.text = <<"a", ".">>
    /\ \E e \in delivered : e.text = <<"b", "?">>
    /\ stt_pc = "work"


\* a step of a stage worker, of TTSWorker's call to speak, or of main
OtherThanManagerStep ==
    \/ VADOpen \/ VADOpenFail \/ VADReadFail \/ VADStep \/ VADPutTimeout
    \/ TakeChunk \/ ChunkArrive \/ STTStep \/ MTStep \/ TWStep \/ Speak
    \/ MainStep \/ MainElapsed \/ MainInterrupt

\* C26: the speaking flag is changed only by the TTSManager worker, at its
\* set and at its clear; no step of the chunker, the transcriber, the
\* translator, TTSWorker (its call to speak included) or main changes it; the
\* chunker reads it in its step on the frame, which is never held up by it.
C26_OnlyManagerWritesFlag ==
    /\ [][speaking' # speaking =>
            \/ (tm_pc = "engage" /\ tm_pc' = "say" /\ speaking')
            \/ (tm_pc = "release" /\ tm_pc' = "loop" /\ ~speaking')]_vars
    /\ [][OtherThanManagerStep => speaking' = speaking]_vars
    /\ [](vad_pc = "frame" => ENABLED VADProcess)

\* the flag is set for a request TTSWorker made, and TTSWorker is about to
\* handle its next event
C26_Witness ==
    /\ speaking
    /\ tm_tag >= 0
    /\ tm_pc = "playing"
    /\ tw_pc = "work"
    /\ tw_evt.text # <<>>


\* C27 as stated: once the flag is set main always reaches its end, the
\* TTSManager told to stop, whatever the workers do: every join returns.
C27_ShutdownCompletes == stop_event ~> (MainExited /\ tm_stop)


\* a step of archive_old_sessions called with threshold_days
ArchiveMovesOld(threshold_days) ==
    LET old == Old(sm_now - threshold_days * 24 * 3600 * ClockRes)
    IN  /\ DOMAIN sessions_dir' = DOMAIN sessions_dir \ old
        /\ \A id \in old : id \in DOMAIN archive_dir'
        /\ \A id \in DOMAIN archive_dir' \ old :
              id \in DOMAIN archive_dir /\ archive_dir'[id] = archive_dir[id]

\* a step of a call that is not end_session and leaves the archive as it is
NotInArchiveStep ==
    /\ current_session' = current_session
    /\ sm_now' = sm_now
    /\ sm_starts' = sm_starts
    /\ archive_dir' = archive_dir

\* C28 as stated: every stored session file is in exactly one of the sessions
\* directory, with status completed, and the archive directory, with status
\* archived, never in both; archive_old_sessions moves exactly the completed
\* sessions that ended before the threshold; unarchive_session on an id that is
\* not in the archive changes nothing.
C28_OneDirectoryPerSession ==
    /\ [](DOMAIN sessions_dir \cap DOMAIN archive_dir = {})
    /\ [](\A id \in DOMAIN sessions_dir : sessions_dir[id].status = "completed")
    /\ [](\A id \in DOMAIN archive_dir : archive_dir[id].status = "archived")
    /\ [][(DOMAIN archive_dir' \ DOMAIN archive_dir # {})
            => \E d \in ThresholdDays : ArchiveMovesOld(d)]_vars
    /\ [][NotInArchiveStep => sessions_dir' = sessions_dir]_vars


\* the TTSManager worker holds no request: it is at its loop test, waiting on
\* its queue, or has left its loop
NoRequestInFlight == tm_pc \in {"loop", "get", "done"}

\* C31: whenever the TTSManager worker has no request in flight (it waits on
\* its queue or has ended after stop()) the speaking flag is clear: an idle or
\* stopped synthesizer never leaves the gate closed.
C31_IdleFlagClear == NoRequestInFlight => ~speaking

\* the worker has taken a request and been through it, has been stopped and
\* has ended, requests still queued
C31_Witness ==
    /\ tm_pc = "done"
    /\ tm_stop
    /\ tm_text # <<>>
    /\ tts_queue # <<>>
    /\ ~speaking



Stages == {"stt", "mt", "tts"}

\* the input queue of each stage
QueueOf(stage) ==
    CASE stage = "stt" -> vad2stt
      [] stage = "mt" -> stt2mt
      [] stage = "tts" -> mt2tts

IsPrefix(a, b) == Len(a) <= Len(b) /\ SubSeq(b, 1, Len(a)) = a

\* what was queued for the stage when the flag was set, less the item a get
\* has returned since
LeftBehind(stage) ==
    IF late_gets[stage] > 0 /\ at_stop[stage] # <<>>
    THEN Tail(at_stop[stage]) ELSE at_stop[stage]

\* C32: once the cancellation flag is set each of STTWorker, TranslationWorker
\* and TTSWorker takes at most one further item from its input queue, and
\* every other item queued at that moment stays in the queue: it is never
\* processed.
C32_NoDrainOnStop ==
    stop_event =>
        \A stage \in Stages :
            /\ late_gets[stage] <= 1
            /\ IsPrefix(LeftBehind(stage), QueueOf(stage))

\* the translator's get returned one of two queued events after the flag was
\* set; the translator has ended and the other event is still queued
C32_Witness ==
    /\ stop_event
    /\ Len(at_stop.mt) = 2
    /\ late_gets.mt = 1
    /\ mt_pc = "done"
    /\ stt2mt # <<>>


=============================================================================
